---- MODULE Spec2Model ----
(***************************************************************************)
(* A session of the LightRAG chat application (src/app.py).                *)
(*                                                                         *)
(* The application is one Streamlit script.  Every user action re-runs the *)
(* script from top to bottom against the session state (rag_instance,      *)
(* messages, documents_loaded) and the current widget values.  The model   *)
(* follows one session: a user action at pc = "idle" stores the widget     *)
(* values and starts a run; the run walks through the sidebar credential   *)
(* block, the upload block and its loop, the Clear Chat button, and the    *)
(* main area with the chat turn.  A run is taken to finish before the next *)
(* user action is processed.                                               *)
(*                                                                         *)
(* The external engine is not modelled: each call into it (construction,   *)
(* ainsert, aquery) is a nondeterministic outcome.  The query mode widget  *)
(* is passed to the engine unchanged and touches no state, so only the     *)
(* re-run it triggers is modelled (SelectQueryMode).                       *)
(***************************************************************************)
EXTENDS Integers, Sequences, FiniteSets, TLC

\* ---------------------------------------------------------------- bounds
MaxMsgs == 4
MaxFiles == 2
MaxInitCalls == 2
MaxIngested == 2

\* ---------------------------------------------------------------- values
None == "None"
NoSecret == "NoSecret"

\* what the secrets store holds under GEMINI_API_KEY (or nothing)
Secrets == {NoSecret, "", "sk"}
\* what the user can type into the API key box
Keys == {"", "k1", "k2"}
FileNames == {"a.txt", "b.pdf"}
Prompts == {"q1", "q2"}
\* what the engine's aquery can return when it does not raise
Answers == {"", "a1"}
\* what datetime.now().strftime("%H:%M:%S") can return
Times == {"09:00:00"}

RECURSIVE SeqsUpTo(_, _)
SeqsUpTo(S, n) ==
    IF n = 0 THEN {<<>>}
    ELSE LET shorter == SeqsUpTo(S, n - 1)
         IN  shorter \cup {Append(s, x) : s \in {t \in shorter : Len(t) = n - 1}, x \in S}

FileBatches == SeqsUpTo(FileNames, MaxFiles)

\* Python truthiness of None, a string, or an engine object
Truthy(x) == x # None /\ x # ""

IsPrefix(s, t) == Len(s) <= Len(t) /\ SubSeq(t, 1, Len(s)) = s

VARIABLES
    rag_instance,       \* st.session_state.rag_instance
    messages,           \* st.session_state.messages
    documents_loaded,   \* st.session_state.documents_loaded
    secrets,            \* st.secrets["GEMINI_API_KEY"], or NoSecret
    text_input,         \* value of the "Gemini API Key" box
    uploaded_files,     \* value of the file uploader
    load_button,        \* "Load Documents" was clicked for this run
    clear_button,       \* "Clear Chat" was clicked for this run
    prompt,             \* text submitted to the chat input for this run, or None
    pc,                 \* position of the script run
    idx,                \* loop index of the Load Documents loop
    success_count,      \* success_count of the Load Documents handler
    response,           \* what query_rag returned in this run
    view,               \* what the main area shows
    load_button_shown,  \* the Load Documents button is on screen
    report,             \* the final "Successfully loaded s/n" message
    init_calls,         \* history: invocations of initialize_lightrag
    load_calls,         \* history: files load_document was invoked on in this run
    load_results,       \* history: what each load_document call of this run returned
    ingested,           \* history: files ingested successfully in the session
    run_cause,          \* history: what started the current run
    adapter_calls,      \* history: the adapter calls of this run, with what each did
    in_flight           \* engine operations started and not yet completed

vars == <<rag_instance, messages, documents_loaded, secrets, text_input,
          uploaded_files, load_button, clear_button, prompt, pc, idx,
          success_count, response, view, load_button_shown, report,
          init_calls, load_calls, load_results, ingested, run_cause,
          adapter_calls, in_flight>>

session == <<rag_instance, messages, documents_loaded>>
widgets == <<secrets, text_input, uploaded_files>>
history == <<init_calls, ingested>>

\* api_key as the sidebar computes it
api_key == IF secrets # NoSecret THEN secrets ELSE text_input

\* the engine object the n-th call of initialize_lightrag constructs
Handle(n) == "LightRAG#" \o ToString(n)

\* What an adapter call does.  ret is the value it returns, error the st.error
\* message it shows, raised whether the engine raised inside it, escaped
\* whether that exception left the adapter, attempts how often it invoked the
\* engine.  For load_document and query_rag, loop is the event loop the call
\* creates (ops: coroutines run on it, closed: closed when the call returns);
\* for load_document, tmp_left tells whether the temporary file still exists
\* when the call returns.

\* constructed is the outcome of the imports, os.makedirs and LightRAG(...)
initialize_lightrag(constructed, n) ==
    [ret      |-> IF constructed THEN Handle(n) ELSE None,
     error    |-> IF constructed THEN <<>> ELSE <<"Failed to initialize">>,
     raised   |-> ~constructed,
     escaped  |-> FALSE,
     attempts |-> 1]

\* load_document without the except clause
load_documentNoExcept(rag, insert) ==
    LET inserted == rag # None /\ insert = "ok"
    IN  [ret      |-> inserted,
         error    |-> <<>>,
         raised   |-> ~inserted,
         escaped  |-> ~inserted,
         attempts |-> IF rag # None THEN 1 ELSE 0,
         loop     |-> [ops |-> IF rag # None THEN 1 ELSE 0, closed |-> inserted],
         tmp_left |-> ~inserted]

\* load_document removing the temporary file on the failure path as well
load_documentCleansUp(rag, insert) ==
    LET inserted == rag # None /\ insert = "ok"
    IN  [ret      |-> inserted,
         error    |-> IF inserted THEN <<>> ELSE <<"Load failed">>,
         raised   |-> ~inserted,
         escaped  |-> FALSE,
         attempts |-> IF rag # None THEN 1 ELSE 0,
         loop     |-> [ops |-> IF rag # None THEN 1 ELSE 0, closed |-> inserted],
         tmp_left |-> FALSE]

\* insert is the outcome of rag.ainsert: "ok" or "raise"; on a rag of None the
\* attribute lookup rag.ainsert raises before anything runs on the loop
load_document(rag, insert) ==
    LET inserted == rag # None /\ insert = "ok"
    IN  [ret      |-> inserted,
         error    |-> IF inserted THEN <<>> ELSE <<"Load failed">>,
         raised   |-> ~inserted,
         escaped  |-> FALSE,
         attempts |-> IF rag # None THEN 1 ELSE 0,
         loop     |-> [ops |-> IF rag # None THEN 1 ELSE 0, closed |-> inserted],
         tmp_left |-> ~inserted]

\* answer is the outcome of rag.aquery: "raise" or the text it returns
query_rag(rag, answer) ==
    LET failed == rag = None \/ answer = "raise"
    IN  [ret      |-> IF failed THEN None ELSE answer,
         error    |-> IF failed THEN <<"Query failed">> ELSE <<>>,
         raised   |-> failed,
         escaped  |-> FALSE,
         attempts |-> IF rag # None THEN 1 ELSE 0,
         loop     |-> [ops |-> IF rag # None THEN 1 ELSE 0, closed |-> ~failed]]

\* the record of one adapter call: the handle it was given and the value of
\* documents_loaded at the call
Call(adapter, rag, loaded, result) ==
    [adapter |-> adapter, rag |-> rag, loaded |-> loaded, result |-> result]

\* where the run goes after an adapter call: an exception that leaves the
\* adapter ends the run
After(result, next) == IF result.escaped THEN "crashed" ELSE next

Message(role, content, timestamp) ==
    [role |-> role, content |-> content, timestamp |-> timestamp]

\* the values a run starts with, whatever started it
RunStart ==
    /\ pc' = "sidebar"
    /\ idx' = 0
    /\ success_count' = 0
    /\ response' = None
    /\ view' = "none"
    /\ load_button_shown' = FALSE
    /\ report' = <<>>
    /\ load_calls' = <<>>
    /\ load_results' = <<>>
    /\ adapter_calls' = <<>>
    /\ in_flight' = {}

Init ==
    /\ rag_instance = None
    /\ messages = <<>>
    /\ documents_loaded = FALSE
    /\ secrets \in Secrets
    /\ text_input = ""
    /\ uploaded_files = <<>>
    /\ load_button = FALSE
    /\ clear_button = FALSE
    /\ prompt = None
    /\ pc = "sidebar"
    /\ idx = 0
    /\ success_count = 0
    /\ response = None
    /\ view = "none"
    /\ load_button_shown = FALSE
    /\ report = <<>>
    /\ init_calls = 0
    /\ load_calls = <<>>
    /\ load_results = <<>>
    /\ ingested = 0
    /\ run_cause = "initial"
    /\ adapter_calls = <<>>
    /\ in_flight = {}

\* ---------------------------------------------------------- user actions
\* A user action delivers the current widget values and at most one trigger;
\* an edit of the key box made just before a trigger arrives in the same run.
\* runs is the number of script runs the action causes.
Rerun(k, fs, load, clear, q, runs) ==
    /\ pc = "idle"
    /\ rag_instance # None \/ init_calls + runs <= MaxInitCalls
    /\ secrets # NoSecret => k = text_input
    /\ text_input' = k
    /\ uploaded_files' = fs
    /\ load_button' = load
    /\ clear_button' = clear
    /\ prompt' = q
    /\ run_cause' = "user"
    /\ RunStart
    /\ UNCHANGED <<session, secrets, history>>

EnterCredential ==
    \E k \in Keys :
        /\ k # text_input
        /\ Rerun(k, uploaded_files, FALSE, FALSE, None, 1)

UploadFiles ==
    \E fs \in FileBatches :
        /\ fs # uploaded_files
        /\ Rerun(text_input, fs, FALSE, FALSE, None, 1)

SelectQueryMode ==
    Rerun(text_input, uploaded_files, FALSE, FALSE, None, 1)

ClickLoadDocuments ==
    /\ load_button_shown
    /\ ingested + Len(uploaded_files) <= MaxIngested
    /\ \E k \in Keys : Rerun(k, uploaded_files, TRUE, FALSE, None, 1)

ClickClearChat ==
    \E k \in Keys : Rerun(k, uploaded_files, FALSE, TRUE, None, 2)

SubmitQuestion ==
    /\ view = "chat"
    /\ Len(messages) + 2 <= MaxMsgs
    /\ \E q \in Prompts, k \in Keys : Rerun(k, uploaded_files, FALSE, FALSE, q, 1)

\* ------------------------------------------------------------ script run
\* SidebarCredential without the "rag_instance is None" test
SidebarCredentialNoGuard ==
    /\ pc = "sidebar"
    /\ IF Truthy(api_key)
       THEN \E constructed \in BOOLEAN :
               LET r == initialize_lightrag(constructed, init_calls + 1)
               IN  /\ rag_instance' = r.ret
                   /\ init_calls' = init_calls + 1
                   /\ adapter_calls' =
                          Append(adapter_calls,
                                 Call("initialize_lightrag", rag_instance,
                                      documents_loaded, r))
                   /\ pc' = After(r, "upload")
       ELSE /\ pc' = "upload"
            /\ UNCHANGED <<rag_instance, init_calls, adapter_calls>>
    /\ UNCHANGED <<messages, documents_loaded, widgets, load_button, clear_button,
                   prompt, idx, success_count, response, view, load_button_shown,
                   report, load_calls, load_results, ingested, run_cause, in_flight>>

SidebarCredential ==
    /\ pc = "sidebar"
    /\ IF Truthy(api_key) /\ rag_instance = None
       THEN \E constructed \in BOOLEAN :
               LET r == initialize_lightrag(constructed, init_calls + 1)
               IN  /\ rag_instance' = r.ret
                   /\ init_calls' = init_calls + 1
                   /\ adapter_calls' =
                          Append(adapter_calls,
                                 Call("initialize_lightrag", rag_instance,
                                      documents_loaded, r))
                   /\ pc' = After(r, "upload")
       ELSE /\ pc' = "upload"
            /\ UNCHANGED <<rag_instance, init_calls, adapter_calls>>
    /\ UNCHANGED <<messages, documents_loaded, widgets, load_button, clear_button,
                   prompt, idx, success_count, response, view, load_button_shown,
                   report, load_calls, load_results, ingested, run_cause, in_flight>>

\* SidebarUpload without the rag_instance test
SidebarUploadNoEngineCheck ==
    /\ pc = "upload"
    /\ LET offered == uploaded_files # <<>>
       IN  /\ load_button_shown' = offered
           /\ pc' = IF offered /\ load_button THEN "load" ELSE "clear"
    /\ idx' = 0
    /\ success_count' = 0
    /\ UNCHANGED <<session, widgets, load_button, clear_button, prompt, response,
                   view, report, history, load_calls, load_results, run_cause,
                   adapter_calls, in_flight>>

SidebarUpload ==
    /\ pc = "upload"
    /\ LET offered == uploaded_files # <<>> /\ Truthy(rag_instance)
       IN  /\ load_button_shown' = offered
           /\ pc' = IF offered /\ load_button THEN "load" ELSE "clear"
    /\ idx' = 0
    /\ success_count' = 0
    /\ UNCHANGED <<session, widgets, load_button, clear_button, prompt, response,
                   view, report, history, load_calls, load_results, run_cause,
                   adapter_calls, in_flight>>

\* LoadFile leaving the loop at the first file that fails
LoadFileStopsOnFailure ==
    /\ pc = "insert"
    /\ \E insert \in {"ok", "raise"} :
        LET r == load_document(rag_instance, insert)
            loaded == r.ret
        IN  /\ success_count' = IF loaded THEN success_count + 1 ELSE success_count
            /\ load_results' = Append(load_results, loaded)
            /\ ingested' = IF loaded THEN ingested + 1 ELSE ingested
            /\ idx' = IF loaded THEN idx + 1 ELSE Len(uploaded_files)
            /\ adapter_calls' =
                   Append(adapter_calls,
                          Call("load_document", rag_instance, documents_loaded, r))
            /\ pc' = After(r, "load")
    /\ load_calls' = Append(load_calls, uploaded_files[idx + 1])
    /\ in_flight' = {}
    /\ UNCHANGED <<session, widgets, load_button, clear_button, prompt, response,
                   view, load_button_shown, report, init_calls, run_cause>>

\* LoadFileStart going on to the next file without waiting for the insert
LoadFileStartNoWait ==
    /\ pc = "load"
    /\ idx < Len(uploaded_files)
    /\ in_flight' = in_flight \cup {<<"ainsert", idx + 1, uploaded_files[idx + 1]>>}
    /\ idx' = idx + 1
    /\ load_calls' = Append(load_calls, uploaded_files[idx + 1])
    /\ UNCHANGED <<session, widgets, load_button, clear_button, prompt, pc,
                   success_count, response, view, load_button_shown, report, history,
                   load_results, run_cause, adapter_calls>>

\* The loop body enters load_document for the next file: the call blocks in
\* loop.run_until_complete(rag.ainsert(tmp_path)) until the insert is over.
LoadFileStart ==
    /\ pc = "load"
    /\ idx < Len(uploaded_files)
    /\ in_flight' = IF rag_instance = None
                    THEN in_flight
                    ELSE in_flight \cup {<<"ainsert", idx + 1, uploaded_files[idx + 1]>>}
    /\ pc' = "insert"
    /\ UNCHANGED <<session, widgets, load_button, clear_button, prompt, idx,
                   success_count, response, view, load_button_shown, report, history,
                   load_calls, load_results, run_cause, adapter_calls>>

\* load_document returns and the loop body finishes
LoadFile ==
    /\ pc = "insert"
    /\ \E insert \in {"ok", "raise"} :
        LET r == load_document(rag_instance, insert)
            loaded == r.ret
        IN  /\ success_count' = IF loaded THEN success_count + 1 ELSE success_count
            /\ load_results' = Append(load_results, loaded)
            /\ ingested' = IF loaded THEN ingested + 1 ELSE ingested
            /\ adapter_calls' =
                   Append(adapter_calls,
                          Call("load_document", rag_instance, documents_loaded, r))
            /\ pc' = After(r, "load")
    /\ load_calls' = Append(load_calls, uploaded_files[idx + 1])
    /\ idx' = idx + 1
    /\ in_flight' = {}
    /\ UNCHANGED <<session, widgets, load_button, clear_button, prompt, response,
                   view, load_button_shown, report, init_calls, run_cause>>

LoadFinish ==
    /\ pc = "load"
    /\ idx = Len(uploaded_files)
    /\ documents_loaded' = TRUE
    /\ report' = <<success_count, Len(uploaded_files)>>
    /\ pc' = "clear"
    /\ UNCHANGED <<rag_instance, messages, widgets, load_button, clear_button, prompt,
                   idx, success_count, response, view, load_button_shown, history,
                   load_calls, load_results, run_cause, adapter_calls, in_flight>>

\* ClearChat re-running without emptying the transcript
ClearChatKeepsTranscript ==
    /\ pc = "clear"
    /\ IF clear_button
       THEN /\ clear_button' = FALSE
            /\ run_cause' = "st.rerun"
            /\ RunStart
            /\ UNCHANGED <<session, widgets, load_button, prompt, history>>
       ELSE /\ pc' = "main"
            /\ UNCHANGED <<session, widgets, load_button, clear_button, prompt, idx,
                           success_count, response, view, load_button_shown, report,
                           history, load_calls, load_results, run_cause,
                           adapter_calls, in_flight>>

\* ClearChat resetting the engine together with the transcript
ClearChatResetsEngine ==
    /\ pc = "clear"
    /\ IF clear_button
       THEN /\ messages' = <<>>
            /\ rag_instance' = None
            /\ clear_button' = FALSE
            /\ run_cause' = "st.rerun"
            /\ RunStart
            /\ UNCHANGED <<documents_loaded, widgets, load_button, prompt, history>>
       ELSE /\ pc' = "main"
            /\ UNCHANGED <<session, widgets, load_button, clear_button, prompt, idx,
                           success_count, response, view, load_button_shown, report,
                           history, load_calls, load_results, run_cause,
                           adapter_calls, in_flight>>

\* ClearChat resetting documents_loaded together with the transcript
ClearChatResetsDocuments ==
    /\ pc = "clear"
    /\ IF clear_button
       THEN /\ messages' = <<>>
            /\ documents_loaded' = FALSE
            /\ clear_button' = FALSE
            /\ run_cause' = "st.rerun"
            /\ RunStart
            /\ UNCHANGED <<rag_instance, widgets, load_button, prompt, history>>
       ELSE /\ pc' = "main"
            /\ UNCHANGED <<session, widgets, load_button, clear_button, prompt, idx,
                           success_count, response, view, load_button_shown, report,
                           history, load_calls, load_results, run_cause,
                           adapter_calls, in_flight>>

ClearChat ==
    /\ pc = "clear"
    /\ IF clear_button
       THEN /\ messages' = <<>>
            /\ clear_button' = FALSE
            /\ run_cause' = "st.rerun"
            /\ RunStart
            /\ UNCHANGED <<rag_instance, documents_loaded, widgets, load_button,
                           prompt, history>>
       ELSE /\ pc' = "main"
            /\ UNCHANGED <<session, widgets, load_button, clear_button, prompt, idx,
                           success_count, response, view, load_button_shown, report,
                           history, load_calls, load_results, run_cause,
                           adapter_calls, in_flight>>

\* MainView without the credential test
MainViewIgnoresKey(key, rag, loaded) ==
    IF ~Truthy(rag) THEN "init_failed"
    ELSE IF ~loaded THEN "upload_first"
    ELSE "chat"

MainView(key, rag, loaded) ==
    IF ~Truthy(key) THEN "get_started"
    ELSE IF ~Truthy(rag) THEN "init_failed"
    ELSE IF ~loaded THEN "upload_first"
    ELSE "chat"

\* ChatTurn appending the assistant entry whatever query_rag returned
ChatTurnAlwaysAnswers(msgs, q, asked, resp, answered) ==
    Append(Append(msgs, Message("user", q, asked)),
           Message("assistant", resp, answered))

\* ChatTurn assigning a new list instead of appending
ChatTurnRestart(msgs, q, asked, resp, answered) ==
    LET withUser == <<Message("user", q, asked)>>
    IN  IF Truthy(resp)
        THEN Append(withUser, Message("assistant", resp, answered))
        ELSE withUser

\* ChatTurn appending the answer before the question
ChatTurnAnswerFirst(msgs, q, asked, resp, answered) ==
    IF Truthy(resp)
    THEN Append(Append(msgs, Message("assistant", resp, answered)),
                Message("user", q, asked))
    ELSE Append(msgs, Message("user", q, asked))

\* the transcript after a chat turn
ChatTurn(msgs, q, asked, resp, answered) ==
    LET withUser == Append(msgs, Message("user", q, asked))
    IN  IF Truthy(resp)
        THEN Append(withUser, Message("assistant", resp, answered))
        ELSE withUser

MainArea ==
    /\ pc = "main"
    /\ view' = MainView(api_key, rag_instance, documents_loaded)
    /\ IF view' = "chat" /\ Truthy(prompt)
       THEN \E asked \in Times, answered \in Times, answer \in Answers \cup {"raise"} :
               LET r == query_rag(rag_instance, answer)
               IN  /\ response' = r.ret
                   /\ messages' = ChatTurn(messages, prompt, asked, response', answered)
                   /\ adapter_calls' =
                          Append(adapter_calls,
                                 Call("query_rag", rag_instance, documents_loaded, r))
                   /\ pc' = After(r, "idle")
       ELSE /\ pc' = "idle"
            /\ UNCHANGED <<messages, response, adapter_calls>>
    /\ UNCHANGED <<rag_instance, documents_loaded, widgets, load_button, clear_button,
                   prompt, idx, success_count, load_button_shown, report, history,
                   load_calls, load_results, run_cause, in_flight>>

Next ==
    \/ EnterCredential
    \/ UploadFiles
    \/ SelectQueryMode
    \/ ClickLoadDocuments
    \/ ClickClearChat
    \/ SubmitQuestion
    \/ SidebarCredential
    \/ SidebarUpload
    \/ LoadFileStart
    \/ LoadFile
    \/ LoadFinish
    \/ ClearChat
    \/ MainArea

Spec == Init /\ [][Next]_vars

\* ------------------------------------------------------------ properties
\* the step that runs the chat turn: the main area reaches the chat input and
\* a question was submitted
TurnStep ==
    /\ pc = "main"
    /\ MainView(api_key, rag_instance, documents_loaded) = "chat"
    /\ Truthy(prompt)

\* a turn has run and its result is on screen
TurnDone == pc = "idle" /\ view = "chat" /\ Truthy(prompt)

\* the step in which the Clear Chat handler runs
ClearStep == pc = "clear" /\ clear_button

\* number of load_document calls of this run that returned False
FailedLoads == Cardinality({i \in 1..Len(load_results) : ~load_results[i]})

\* C1 as stated: after a failed query (query_rag returns None) the transcript
\* is identical to the transcript before the question was submitted.
C1_TranscriptUntouchedByFailedQuery ==
    [][(TurnStep /\ response' = None) => messages' = messages]_vars

\* C1 amended: after a failed query no assistant message is appended and the
\* earlier messages are unchanged; the transcript is the one before the
\* question plus exactly one user message carrying the question.
C1_FailedQueryAppendsOnlyQuestion ==
    [][(TurnStep /\ response' = None) =>
          \E asked \in Times :
              messages' = Append(messages, Message("user", prompt, asked))]_vars

\* a failed query on a transcript that already held a full exchange
C1_Witness ==
    /\ TurnDone
    /\ response = None
    /\ Len(messages) = 3
    /\ messages[2].role = "assistant"
    /\ messages[3] = Message("user", prompt, messages[3].timestamp)

C3_SuccessfulQueryAppendsTwo ==
    [][(TurnStep /\ response' # None) =>
          \E asked \in Times, answered \in Times :
              messages' = messages \o <<Message("user", prompt, asked),
                                        Message("assistant", response', answered)>>]_vars

\* C4: when the Load Documents handler has reported, load_document was invoked
\* once on every uploaded file, in order, and the reported success count is
\* the number of files minus the number of failed ones.
C4_AllFilesAttempted ==
    report # <<>> =>
        /\ load_calls = uploaded_files
        /\ Len(load_results) = Len(uploaded_files)
        /\ report = <<Len(uploaded_files) - FailedLoads, Len(uploaded_files)>>

\* a batch of two whose first file failed and whose second was ingested
C4_Witness ==
    /\ report = <<1, 2>>
    /\ load_results = <<FALSE, TRUE>>

\* C5 as stated: across every action, Clear Chat included, the transcript
\* before is a prefix of the transcript after.
C5_AppendOnly == [][IsPrefix(messages, messages')]_vars

\* C5 amended: across every action other than Clear Chat the transcript before
\* is a prefix of the transcript after; Clear Chat empties it.
C5_AppendOnlyExceptClear ==
    [][IF ClearStep THEN messages' = <<>> ELSE IsPrefix(messages, messages')]_vars

\* a turn was appended to a transcript that already held a message
C5_Witness ==
    /\ TurnDone
    /\ Len(messages) = 3
    /\ messages[3].role = "assistant"

\* C6: the Clear Chat handler leaves the transcript empty from every state,
\* and it is still empty when the re-run it triggers has finished.
C6_ClearEmptiesTranscript ==
    /\ [][ClearStep => messages' = <<>>]_vars
    /\ [](run_cause = "st.rerun" => messages = <<>>)

\* Clear Chat has run in a session that was chatting
C6_Witness ==
    /\ run_cause = "st.rerun"
    /\ pc = "idle"
    /\ view = "chat"
    /\ messages = <<>>

\* C7: once the engine handle is set, no step changes it.
C7_HandleNeverReplaced ==
    [][rag_instance # None => rag_instance' = rag_instance]_vars

\* the handle of the first initialization is still there after the credential
\* was changed, documents were loaded and the chat was cleared
C7_Witness ==
    /\ rag_instance = Handle(1)
    /\ text_input = "k2"
    /\ documents_loaded
    /\ run_cause = "st.rerun"
    /\ pc = "idle"

\* C8: whenever the main area is drawn with a credential present, the engine
\* handle set and no file ingested successfully in the session, it shows the
\* upload-first prompt (and so no chat input).
C8_NoChatBeforeIngestion ==
    (view # "none" /\ Truthy(api_key) /\ Truthy(rag_instance) /\ ingested = 0)
        => view = "upload_first"

\* C9: while the engine handle is unset, load_document is not invoked and
\* documents_loaded is not set; and a main area drawn with a credential
\* present and the handle unset shows the failed-to-initialize warning.
C9_NoIngestionWithoutEngine ==
    /\ rag_instance = None =>
          /\ pc # "load"
          /\ load_calls = <<>>
          /\ report = <<>>
          /\ ~documents_loaded
    /\ (view # "none" /\ Truthy(api_key) /\ rag_instance = None)
          => view = "init_failed"

\* initialization failed with files waiting in the uploader
C9_Witness ==
    /\ view = "init_failed"
    /\ init_calls > 0
    /\ uploaded_files # <<>>

\* C10: a main area drawn with the credential absent shows the get-started
\* prompt (no chat input), whatever the session state, and that step neither
\* runs a query nor appends a message.
C10_NoCredentialNoChat ==
    /\ []((view # "none" /\ ~Truthy(api_key)) => view = "get_started")
    /\ [][(pc = "main" /\ ~Truthy(api_key))
             => (messages' = messages /\ response' = response)]_vars

\* the credential was removed in a session that was chatting, together with
\* a submitted question
C10_Witness ==
    /\ view = "get_started"
    /\ rag_instance # None
    /\ documents_loaded
    /\ messages # <<>>
    /\ Truthy(prompt)

\* the adapter calls of this run that are calls of adapter a
CallsOf(a) == {i \in 1..Len(adapter_calls) : adapter_calls[i].adapter = a}

\* a call whose engine operation raised returned the adapter's null value,
\* showed a message and let no exception out
FailureHandled(c) ==
    c.result.raised =>
        /\ ~c.result.escaped
        /\ c.result.error # <<>>
        /\ IF c.adapter = "load_document" THEN c.result.ret = FALSE
                                          ELSE c.result.ret = None

\* no exception reaches the script, and every failed call was handled
FailuresCaught ==
    /\ pc # "crashed"
    /\ \A i \in 1..Len(adapter_calls) : FailureHandled(adapter_calls[i])

\* within a run nothing is attempted twice: one engine invocation per call,
\* one initialize_lightrag, one query_rag, one load_document per file
NoRetryWithinRun ==
    /\ \A i \in 1..Len(adapter_calls) : adapter_calls[i].result.attempts <= 1
    /\ Cardinality(CallsOf("initialize_lightrag")) <= 1
    /\ Cardinality(CallsOf("query_rag")) <= 1
    /\ Cardinality(CallsOf("load_document")) = Len(load_calls)
    /\ IsPrefix(load_calls, uploaded_files)

Stage ==
    IF documents_loaded THEN 2
    ELSE IF rag_instance # None THEN 1
    ELSE 0

\* C12: documents_loaded is true only if the engine handle is set; no step
\* takes the handle back to None or documents_loaded back to False, so the
\* lifecycle stage never decreases, and it advances one stage at a time.
C12_LifecycleMovesForward ==
    /\ [](documents_loaded => rag_instance # None)
    /\ [][/\ rag_instance # None => rag_instance' # None
          /\ documents_loaded => documents_loaded'
          /\ Stage' \in {Stage, Stage + 1}]_vars

\* a session that reached chatting, took two chat turns, and is still in the
\* documents-loaded stage with its credential removed
C12_Witness ==
    /\ Stage = 2
    /\ Len(messages) = 4
    /\ ~Truthy(api_key)
    /\ view = "get_started"

\* the step in which query_rag is called
QueryCalled ==
    /\ Len(adapter_calls') = Len(adapter_calls) + 1
    /\ adapter_calls'[Len(adapter_calls')].adapter = "query_rag"

\* C13: at most one engine operation is in flight; while an insert is in
\* flight the script is inside load_document for that file, every earlier
\* file of the batch has been inserted to completion, in upload order, and no
\* query is called.
C13_OneOperationInFlight ==
    /\ [](Cardinality(in_flight) <= 1)
    /\ [](in_flight # {} =>
             /\ pc = "insert"
             /\ in_flight = {<<"ainsert", idx + 1, uploaded_files[idx + 1]>>}
             /\ load_calls = SubSeq(uploaded_files, 1, idx)
             /\ Len(load_results) = idx)
    /\ [](pc = "load" => /\ in_flight = {}
                         /\ load_calls = SubSeq(uploaded_files, 1, idx)
                         /\ Len(load_results) = idx)
    /\ [][QueryCalled => (in_flight = {} /\ in_flight' = {})]_vars

\* the insert of the second file of a batch is in flight, the first one over
C13_Witness ==
    /\ pc = "insert"
    /\ idx = 1
    /\ Len(load_results) = 1
    /\ in_flight = {<<"ainsert", 2, uploaded_files[2]>>}

\* C14: every load_document or query_rag call of the run created its own
\* event loop, ran exactly one engine operation on it, and had closed it when
\* the call returned, whatever the outcome of the operation.
C14_FreshLoopClosedOnReturn ==
    \A i \in CallsOf("load_document") \cup CallsOf("query_rag") :
        /\ adapter_calls[i].result.loop.ops = 1
        /\ adapter_calls[i].result.loop.closed

\* C15: a load_document call has removed the temporary file when it returns
\* exactly when the insert completed without raising, and then it returns
\* True; when the insert raised, the file is left behind and it returns False.
C15_TempFileRemovedIffInserted ==
    \A i \in CallsOf("load_document") :
        LET r == adapter_calls[i].result
        IN  /\ r.tmp_left <=> r.raised
            /\ r.ret <=> ~r.raised

\* a batch whose first file was inserted, its temporary file removed, and
\* whose second insert raised, its temporary file left behind
C15_Witness ==
    /\ report = <<1, 2>>
    /\ Len(adapter_calls) = 2
    /\ ~adapter_calls[1].result.raised /\ ~adapter_calls[1].result.tmp_left
    /\ adapter_calls[2].result.raised /\ adapter_calls[2].result.tmp_left
    /\ adapter_calls[2].result.ret = FALSE

\* C16: every assistant message of the transcript is immediately preceded by
\* a user message; in particular the transcript never starts with an
\* assistant message and never holds two assistant messages in a row.
C16_AnswerFollowsQuestion ==
    \A i \in 1..Len(messages) :
        messages[i].role = "assistant" =>
            /\ i > 1
            /\ messages[i - 1].role = "user"

\* a failed query followed by a successful one
C16_Witness ==
    /\ Len(messages) = 3
    /\ messages[1].role = "user"
    /\ messages[2].role = "user"
    /\ messages[3].role = "assistant"

\* C17: load_document and query_rag are never called with a handle of None:
\* every such call of the run was given a handle, query_rag was called with
\* documents_loaded true, and no insert is begun or in flight without one.
C17_AdaptersGetAnEngine ==
    /\ \A i \in CallsOf("load_document") \cup CallsOf("query_rag") :
          adapter_calls[i].rag # None
    /\ \A i \in CallsOf("query_rag") : adapter_calls[i].loaded
    /\ pc = "insert" => (rag_instance # None /\ in_flight # {})

\* query_rag was called with the handle of the session, in a session whose
\* first initialization had failed
C17_Witness ==
    /\ pc = "idle"
    /\ Len(adapter_calls) = 1
    /\ adapter_calls[1].adapter = "query_rag"
    /\ adapter_calls[1].rag = Handle(2)
    /\ adapter_calls[1].loaded

\* a step of the Load Documents handler
LoadStep == pc \in {"load", "insert"}

\* C18: the Clear Chat handler leaves the engine handle and documents_loaded
\* as they were; a chat turn, failed or not, and every step of a document
\* load leave the engine handle as it was.
C18_HandlersLeaveEngineAlone ==
    /\ [][ClearStep => (/\ rag_instance' = rag_instance
                        /\ documents_loaded' = documents_loaded)]_vars
    /\ [][(TurnStep \/ LoadStep) => rag_instance' = rag_instance]_vars

\* Clear Chat has run in a session with documents loaded whose handle came
\* from the second initialization: handle and documents_loaded are still there
C18_Witness ==
    /\ run_cause = "st.rerun"
    /\ rag_instance = Handle(2)
    /\ documents_loaded
    /\ messages = <<>>
    /\ pc = "main"

====
